---- MODULE Spec2Model ----
(***************************************************************************)
(* Model of the transaction engine (src/src/transaction_engine.rs).        *)
(*                                                                         *)
(* State: the engine's two hash maps, the client list and the persisted    *)
(* transactions; one action per handler of compute_transaction.            *)
(*                                                                         *)
(* Amounts and balances are f64 in the source.  An f64 value is written    *)
(* here as a record [hi, lo] that stands for the real number               *)
(*        hi * 2^53 + lo          (lo a small integer)                     *)
(* so that the rounding of f64 addition and subtraction (53 bit mantissa,  *)
(* round to nearest, ties to even) is computed as the hardware computes    *)
(* it: below 2^53 every integer is exact, from 2^53 on the spacing of      *)
(* representable values is 2, from 2^54 on it is 4, and so on.             *)
(***************************************************************************)
EXTENDS Integers, FiniteSets, Sequences, TLC

VARIABLES
    clients,        \* TransactionEngine.client_list.clients
    transactions,   \* TransactionEngine.transactions
    last,           \* the Transaction given to the latest compute_transaction
    applied,        \* number of compute_transaction calls so far
    outcome,        \* path the latest handler took: "applied" or "noop" (early return)
    charged,        \* tx ids whose current ledger entry has had a chargeback applied
    named,          \* client ids named by the Deposit and Withdrawal records so far
    before,         \* the client list as a Dispute record found it (empty after other records)
    log_len         \* number of records in the input file that main feeds to the engine

vars == <<clients, transactions, last, applied, outcome, charged, named, before,
          log_len>>

(* ---------------------------- bounds ---------------------------------- *)

\* number of transactions fed to compute_transaction in one run
MaxTx == 5
\* number of transactions in one run of the single-client specification
MaxLongTx == 6
\* transaction ids 1..MaxTxId (u32 in the source)
MaxTxId == 2

\* the client ids of the input records (u16 in the source)
ClientIds == {1, 2}
TxIds == 1..MaxTxId

(* ------------------------------ f64 ----------------------------------- *)

F64(h, l) == [hi |-> h, lo |-> l]

F64Zero == F64(0, 0)

\* the amounts of the input records: 1.0 and 9007199254740992.0 (= 2^53)
Amounts == {F64(0, 1), F64(1, 0)}

F64Neg(x) == F64(0 - x.hi, 0 - x.lo)

RECURSIVE Log2(_)
Log2(n) == IF n <= 1 THEN 0 ELSE 1 + Log2(n \div 2)

RECURSIVE Pow2(_)
Pow2(n) == IF n <= 0 THEN 1 ELSE 2 * Pow2(n - 1)

IsPow2(n) == Pow2(Log2(n)) = n

\* unit in the last place of a value x = hi * 2^53 + lo with hi >= 1:
\* x lies in [2^(53+e), 2^(54+e)) and consecutive f64 values there are
\* 2^(e+1) apart (e = -1: x is below 2^53, spacing 1)
F64Ulp(x) ==
    LET e == IF x.lo < 0 /\ IsPow2(x.hi) THEN Log2(x.hi) - 1 ELSE Log2(x.hi)
    IN  Pow2(e + 1)

\* round to nearest, ties to even, of a positive value with hi >= 1
F64RoundPos(x) ==
    LET u == F64Ulp(x)
        q == x.lo \div u
        r == x.lo % u
        down == F64(x.hi, q * u)
        up == F64(x.hi, (q + 1) * u)
    IN  IF r = 0 THEN x
        ELSE IF 2 * r < u THEN down
        ELSE IF 2 * r > u THEN up
        ELSE IF q % 2 = 0 THEN down ELSE up

F64Round(x) ==
    IF x.hi = 0 THEN x
    ELSE IF x.hi > 0 THEN F64RoundPos(x)
    ELSE F64Neg(F64RoundPos(F64Neg(x)))

\* f64 `+` and `-`: the exact result, rounded
F64Add(x, y) == F64Round(F64(x.hi + y.hi, x.lo + y.lo))

F64Sub(x, y) == F64Round(F64(x.hi - y.hi, x.lo - y.lo))

\* f64 `>=`
F64Ge(x, y) == x.hi > y.hi \/ (x.hi = y.hi /\ x.lo >= y.lo)

(* ------------------------- the two hash maps --------------------------- *)

\* HashMap::insert / entry().or_insert: the map with key k bound to v
Put(f, k, v) == [x \in (DOMAIN f) \cup {k} |-> IF x = k THEN v ELSE f[x]]

EmptyMap == [x \in {} |-> 0]

NewClient(id) ==
    [client |-> id, available |-> F64Zero, held |-> F64Zero,
     total |-> F64Zero, locked |-> FALSE]

\* get_mut that inserts a fresh client on every call (insert for or_insert_with)
get_mut_overwriting(list, id) == Put(list, id, NewClient(id))

\* ClientList::get_mut: the client list after the lookup, in which the
\* client exists (created with zero balances when it was absent)
get_mut(list, id) ==
    IF id \in DOMAIN list THEN list ELSE Put(list, id, NewClient(id))

\* ClientList::get_all / TransactionEngine::get_client_list
get_client_list == {clients[c] : c \in DOMAIN clients}

PersistedDeposit(client_id, tx_id, amount, state) ==
    [client_id |-> client_id, tx_id |-> tx_id, amount |-> amount,
     state |-> state]

\* the Transaction values given to compute_transaction
Deposit(c, t, a) == [type |-> "Deposit", client_id |-> c, tx_id |-> t, amount |-> a]
Withdrawal(c, t, a) == [type |-> "Withdrawal", client_id |-> c, tx_id |-> t, amount |-> a]
Dispute(c, t) == [type |-> "Dispute", client_id |-> c, tx_id |-> t, amount |-> F64Zero]
Resolve(c, t) == [type |-> "Resolve", client_id |-> c, tx_id |-> t, amount |-> F64Zero]
Chargeback(c, t) == [type |-> "Chargeback", client_id |-> c, tx_id |-> t, amount |-> F64Zero]

NoTx == [type |-> "none", client_id |-> 0, tx_id |-> 0, amount |-> F64Zero]

(* ------------------------------ Init ---------------------------------- *)

\* TransactionEngine::new
Init ==
    /\ clients = EmptyMap
    /\ transactions = EmptyMap
    /\ last = NoTx
    /\ applied = 0
    /\ outcome = "noop"
    /\ charged = {}
    /\ named = {}
    /\ before = EmptyMap
    /\ log_len = MaxTx

(* ---------------------------- handlers -------------------------------- *)

\* compute_transaction bookkeeping: the record being applied and the
\* position in the input log
Feed(tx) ==
    /\ applied < log_len
    /\ UNCHANGED log_len
    /\ applied' = applied + 1
    /\ last' = tx
    /\ named' = IF tx.type \in {"Deposit", "Withdrawal"}
                THEN named \cup {tx.client_id} ELSE named
    /\ before' = IF tx.type = "Dispute" THEN clients ELSE EmptyMap

\* handle_deposit without the `if client.locked { return }` test
handle_deposit_ignoring_lock(client_id, tx_id, amount) ==
    /\ Feed(Deposit(client_id, tx_id, amount))
    /\ LET list == get_mut(clients, client_id)
           client == list[client_id]
       IN  IF FALSE
           THEN /\ clients' = list
                /\ outcome' = "noop"
                /\ UNCHANGED <<transactions, charged>>
           ELSE /\ clients' = Put(list, client_id,
                        [client EXCEPT !.total = F64Add(client.total, amount),
                                       !.available = F64Add(client.available, amount)])
                /\ transactions' = Put(transactions, tx_id,
                        PersistedDeposit(client_id, tx_id, amount, "None"))
                /\ outcome' = "applied"
                /\ charged' = charged \ {tx_id}

handle_deposit(client_id, tx_id, amount) ==
    /\ Feed(Deposit(client_id, tx_id, amount))
    /\ LET list == get_mut(clients, client_id)
           client == list[client_id]
       IN  IF client.locked
           THEN /\ clients' = list
                /\ outcome' = "noop"
                /\ UNCHANGED <<transactions, charged>>
           ELSE /\ clients' = Put(list, client_id,
                        [client EXCEPT !.total = F64Add(client.total, amount),
                                       !.available = F64Add(client.available, amount)])
                /\ transactions' = Put(transactions, tx_id,
                        PersistedDeposit(client_id, tx_id, amount, "None"))
                /\ outcome' = "applied"
                /\ charged' = charged \ {tx_id}

\* handle_withdrawal without the `if client.locked { return }` test
handle_withdrawal_ignoring_lock(client_id, tx_id, amount) ==
    /\ Feed(Withdrawal(client_id, tx_id, amount))
    /\ UNCHANGED <<transactions, charged>>
    /\ LET list == get_mut(clients, client_id)
           client == list[client_id]
       IN  IF FALSE
           THEN clients' = list /\ outcome' = "noop"
           ELSE IF F64Ge(client.total, amount) \/ F64Ge(client.available, amount)
           THEN /\ clients' = Put(list, client_id,
                        [client EXCEPT !.total = F64Sub(client.total, amount),
                                       !.available = F64Sub(client.available, amount)])
                /\ outcome' = "applied"
           ELSE clients' = list /\ outcome' = "noop"

\* handle_withdrawal that records the withdrawal in the ledger
handle_withdrawal_persisting(client_id, tx_id, amount) ==
    /\ Feed(Withdrawal(client_id, tx_id, amount))
    /\ transactions' = Put(transactions, tx_id,
            PersistedDeposit(client_id, tx_id, amount, "None"))
    /\ UNCHANGED charged
    /\ LET list == get_mut(clients, client_id)
           client == list[client_id]
       IN  IF client.locked
           THEN clients' = list /\ outcome' = "noop"
           ELSE IF F64Ge(client.total, amount) \/ F64Ge(client.available, amount)
           THEN /\ clients' = Put(list, client_id,
                        [client EXCEPT !.total = F64Sub(client.total, amount),
                                       !.available = F64Sub(client.available, amount)])
                /\ outcome' = "applied"
           ELSE clients' = list /\ outcome' = "noop"

\* handle_withdrawal that looks the client up without creating it
handle_withdrawal_without_creating(client_id, tx_id, amount) ==
    /\ Feed(Withdrawal(client_id, tx_id, amount))
    /\ UNCHANGED <<transactions, charged>>
    /\ IF client_id \notin DOMAIN clients
       THEN clients' = clients /\ outcome' = "noop"
       ELSE LET client == clients[client_id]
            IN  IF client.locked
                THEN clients' = clients /\ outcome' = "noop"
                ELSE IF F64Ge(client.total, amount) \/ F64Ge(client.available, amount)
                THEN /\ clients' = Put(clients, client_id,
                            [client EXCEPT !.total = F64Sub(client.total, amount),
                                           !.available = F64Sub(client.available, amount)])
                     /\ outcome' = "applied"
                ELSE clients' = clients /\ outcome' = "noop"

handle_withdrawal(client_id, tx_id, amount) ==
    /\ Feed(Withdrawal(client_id, tx_id, amount))
    /\ UNCHANGED <<transactions, charged>>
    /\ LET list == get_mut(clients, client_id)
           client == list[client_id]
       IN  IF client.locked
           THEN clients' = list /\ outcome' = "noop"
           ELSE IF F64Ge(client.total, amount) \/ F64Ge(client.available, amount)
           THEN /\ clients' = Put(list, client_id,
                        [client EXCEPT !.total = F64Sub(client.total, amount),
                                       !.available = F64Sub(client.available, amount)])
                /\ outcome' = "applied"
           ELSE clients' = list /\ outcome' = "noop"

\* handle_dispute that books on the client named by the record
handle_dispute_by_record_client(client_id, tx_id) ==
    /\ Feed(Dispute(client_id, tx_id))
    /\ IF tx_id \notin DOMAIN transactions
       THEN outcome' = "noop" /\ UNCHANGED <<clients, transactions, charged>>
       ELSE LET disputed == transactions[tx_id]
                list == get_mut(clients, client_id)
                client == list[client_id]
            IN  IF disputed.state # "None"
                THEN outcome' = "noop" /\ UNCHANGED <<clients, transactions, charged>>
                ELSE /\ clients' = Put(list, client_id,
                            [client EXCEPT !.available = F64Sub(client.available, disputed.amount),
                                           !.held = F64Add(client.held, disputed.amount)])
                     /\ transactions' = Put(transactions, tx_id,
                            [disputed EXCEPT !.state = "Disputed"])
                     /\ outcome' = "applied"
                     /\ UNCHANGED charged

\* handle_dispute without the test of the entry's state
handle_dispute_ignoring_state(client_id, tx_id) ==
    /\ Feed(Dispute(client_id, tx_id))
    /\ IF tx_id \notin DOMAIN transactions
       THEN outcome' = "noop" /\ UNCHANGED <<clients, transactions, charged>>
       ELSE LET disputed == transactions[tx_id]
                list == get_mut(clients, disputed.client_id)
                client == list[disputed.client_id]
            IN  IF FALSE
                THEN outcome' = "noop" /\ UNCHANGED <<clients, transactions, charged>>
                ELSE /\ clients' = Put(list, disputed.client_id,
                            [client EXCEPT !.available = F64Sub(client.available, disputed.amount),
                                           !.held = F64Add(client.held, disputed.amount)])
                     /\ transactions' = Put(transactions, tx_id,
                            [disputed EXCEPT !.state = "Disputed"])
                     /\ outcome' = "applied"
                     /\ UNCHANGED charged

handle_dispute(client_id, tx_id) ==
    /\ Feed(Dispute(client_id, tx_id))
    /\ IF tx_id \notin DOMAIN transactions
       THEN outcome' = "noop" /\ UNCHANGED <<clients, transactions, charged>>
       ELSE LET disputed == transactions[tx_id]
                list == get_mut(clients, disputed.client_id)
                client == list[disputed.client_id]
            IN  IF disputed.state # "None"
                THEN outcome' = "noop" /\ UNCHANGED <<clients, transactions, charged>>
                ELSE /\ clients' = Put(list, disputed.client_id,
                            [client EXCEPT !.available = F64Sub(client.available, disputed.amount),
                                           !.held = F64Add(client.held, disputed.amount)])
                     /\ transactions' = Put(transactions, tx_id,
                            [disputed EXCEPT !.state = "Disputed"])
                     /\ outcome' = "applied"
                     /\ UNCHANGED charged

\* handle_resolve without the test of the entry's state
handle_resolve_ignoring_state(client_id, tx_id) ==
    /\ Feed(Resolve(client_id, tx_id))
    /\ IF tx_id \notin DOMAIN transactions
       THEN outcome' = "noop" /\ UNCHANGED <<clients, transactions, charged>>
       ELSE LET disputed == transactions[tx_id]
                list == get_mut(clients, disputed.client_id)
                client == list[disputed.client_id]
            IN  IF FALSE
                THEN outcome' = "noop" /\ UNCHANGED <<clients, transactions, charged>>
                ELSE /\ clients' = Put(list, disputed.client_id,
                            [client EXCEPT !.available = F64Add(client.available, disputed.amount),
                                           !.held = F64Sub(client.held, disputed.amount)])
                     /\ transactions' = Put(transactions, tx_id,
                            [disputed EXCEPT !.state = "None"])
                     /\ outcome' = "applied"
                     /\ UNCHANGED charged

\* handle_resolve that credits available on the client named by the record
handle_resolve_crediting_record_client(client_id, tx_id) ==
    /\ Feed(Resolve(client_id, tx_id))
    /\ IF tx_id \notin DOMAIN transactions
       THEN outcome' = "noop" /\ UNCHANGED <<clients, transactions, charged>>
       ELSE LET disputed == transactions[tx_id]
                list == get_mut(clients, disputed.client_id)
                client == list[disputed.client_id]
            IN  IF disputed.state # "Disputed"
                THEN outcome' = "noop" /\ UNCHANGED <<clients, transactions, charged>>
                ELSE /\ clients' =
                            LET released == Put(list, disputed.client_id,
                                    [client EXCEPT !.held = F64Sub(client.held, disputed.amount)])
                                named_list == get_mut(released, client_id)
                            IN  Put(named_list, client_id,
                                    [named_list[client_id] EXCEPT
                                        !.available = F64Add(named_list[client_id].available,
                                                             disputed.amount)])
                     /\ transactions' = Put(transactions, tx_id,
                            [disputed EXCEPT !.state = "None"])
                     /\ outcome' = "applied"
                     /\ UNCHANGED charged

handle_resolve(client_id, tx_id) ==
    /\ Feed(Resolve(client_id, tx_id))
    /\ IF tx_id \notin DOMAIN transactions
       THEN outcome' = "noop" /\ UNCHANGED <<clients, transactions, charged>>
       ELSE LET disputed == transactions[tx_id]
                list == get_mut(clients, disputed.client_id)
                client == list[disputed.client_id]
            IN  IF disputed.state # "Disputed"
                THEN outcome' = "noop" /\ UNCHANGED <<clients, transactions, charged>>
                ELSE /\ clients' = Put(list, disputed.client_id,
                            [client EXCEPT !.available = F64Add(client.available, disputed.amount),
                                           !.held = F64Sub(client.held, disputed.amount)])
                     /\ transactions' = Put(transactions, tx_id,
                            [disputed EXCEPT !.state = "None"])
                     /\ outcome' = "applied"
                     /\ UNCHANGED charged

\* handle_chargeback that fetches the record's client before the lookup
handle_chargeback_creating_account(client_id, tx_id) ==
    /\ Feed(Chargeback(client_id, tx_id))
    /\ IF tx_id \notin DOMAIN transactions
       THEN /\ outcome' = "noop"
            /\ clients' = get_mut(clients, client_id)
            /\ UNCHANGED <<transactions, charged>>
       ELSE LET disputed == transactions[tx_id]
                list == get_mut(clients, disputed.client_id)
                client == list[disputed.client_id]
            IN  IF disputed.state # "Disputed"
                THEN outcome' = "noop" /\ UNCHANGED <<clients, transactions, charged>>
                ELSE /\ clients' = Put(list, disputed.client_id,
                            [client EXCEPT !.total = F64Sub(client.total, disputed.amount),
                                           !.held = F64Sub(client.held, disputed.amount),
                                           !.locked = TRUE])
                     /\ transactions' = Put(transactions, tx_id,
                            [disputed EXCEPT !.state = "None"])
                     /\ outcome' = "applied"
                     /\ charged' = charged \cup {tx_id}

\* handle_chargeback that locks the client named by the record
handle_chargeback_locking_record_client(client_id, tx_id) ==
    /\ Feed(Chargeback(client_id, tx_id))
    /\ IF tx_id \notin DOMAIN transactions
       THEN outcome' = "noop" /\ UNCHANGED <<clients, transactions, charged>>
       ELSE LET disputed == transactions[tx_id]
                list == get_mut(clients, disputed.client_id)
                client == list[disputed.client_id]
            IN  IF disputed.state # "Disputed"
                THEN outcome' = "noop" /\ UNCHANGED <<clients, transactions, charged>>
                ELSE /\ clients' =
                            LET debited == Put(list, disputed.client_id,
                                    [client EXCEPT !.total = F64Sub(client.total, disputed.amount),
                                                   !.held = F64Sub(client.held, disputed.amount)])
                                named_list == get_mut(debited, client_id)
                            IN  Put(named_list, client_id,
                                    [named_list[client_id] EXCEPT !.locked = TRUE])
                     /\ transactions' = Put(transactions, tx_id,
                            [disputed EXCEPT !.state = "None"])
                     /\ outcome' = "applied"
                     /\ charged' = charged \cup {tx_id}

handle_chargeback(client_id, tx_id) ==
    /\ Feed(Chargeback(client_id, tx_id))
    /\ IF tx_id \notin DOMAIN transactions
       THEN outcome' = "noop" /\ UNCHANGED <<clients, transactions, charged>>
       ELSE LET disputed == transactions[tx_id]
                list == get_mut(clients, disputed.client_id)
                client == list[disputed.client_id]
            IN  IF disputed.state # "Disputed"
                THEN outcome' = "noop" /\ UNCHANGED <<clients, transactions, charged>>
                ELSE /\ clients' = Put(list, disputed.client_id,
                            [client EXCEPT !.total = F64Sub(client.total, disputed.amount),
                                           !.held = F64Sub(client.held, disputed.amount),
                                           !.locked = TRUE])
                     /\ transactions' = Put(transactions, tx_id,
                            [disputed EXCEPT !.state = "None"])
                     /\ outcome' = "applied"
                     /\ charged' = charged \cup {tx_id}

\* compute_transaction: one match arm per transaction kind
DepositStep == \E c \in ClientIds, t \in TxIds, a \in Amounts : handle_deposit(c, t, a)
WithdrawalStep == \E c \in ClientIds, t \in TxIds, a \in Amounts : handle_withdrawal(c, t, a)
DisputeStep == \E c \in ClientIds, t \in TxIds : handle_dispute(c, t)
ResolveStep == \E c \in ClientIds, t \in TxIds : handle_resolve(c, t)
ChargebackStep == \E c \in ClientIds, t \in TxIds : handle_chargeback(c, t)

Next ==
    \/ DepositStep
    \/ WithdrawalStep
    \/ DisputeStep
    \/ ResolveStep
    \/ ChargebackStep

Spec == Init /\ [][Next]_vars

\* The same engine fed a longer input file whose records all name client 1.
InitLong ==
    /\ clients = EmptyMap
    /\ transactions = EmptyMap
    /\ last = NoTx
    /\ applied = 0
    /\ outcome = "noop"
    /\ charged = {}
    /\ named = {}
    /\ before = EmptyMap
    /\ log_len = MaxLongTx

DepositLong == \E t \in TxIds, a \in Amounts : handle_deposit(1, t, a)
WithdrawalLong == \E t \in TxIds, a \in Amounts : handle_withdrawal(1, t, a)
DisputeLong == \E t \in TxIds : handle_dispute(1, t)
ResolveLong == \E t \in TxIds : handle_resolve(1, t)
ChargebackLong == \E t \in TxIds : handle_chargeback(1, t)

NextLong ==
    \/ DepositLong
    \/ WithdrawalLong
    \/ DisputeLong
    \/ ResolveLong
    \/ ChargebackLong

SpecLong == InitLong /\ [][NextLong]_vars

(* ------------------------- claim vocabulary ---------------------------- *)

IsRef(tx) == tx.type \in {"Dispute", "Resolve", "Chargeback"}

\* the balances of client c in client list `list`
Bal(list, c) == <<list[c].available, list[c].held, list[c].total>>

\* a compute_transaction call happens in this step
Stepped == applied' # applied

\* client c is the same (or equally absent) before and after the step
SameAccount(c) ==
    /\ (c \in DOMAIN clients') = (c \in DOMAIN clients)
    /\ c \in DOMAIN clients => clients'[c] = clients[c]

F64Negative(x) == x.hi < 0 \/ (x.hi = 0 /\ x.lo < 0)

\* the real numbers x + y and x - y, without rounding: the value a balance
\* has when it changes by exactly the amount y
Plus(x, y) == F64(x.hi + y.hi, x.lo + y.lo)

Minus(x, y) == F64(x.hi - y.hi, x.lo - y.lo)

(* ------------------------------ claims --------------------------------- *)

\* C1: in every reachable state every account satisfies
\* total == available + held (the sum taken as the program takes it, in f64).
C1_TotalIsAvailablePlusHeld ==
    \A c \in DOMAIN clients :
        clients[c].total = F64Add(clients[c].available, clients[c].held)

\* C2: a Withdrawal on an unlocked account whose available balance is less
\* than the amount leaves the account unchanged, also when total >= amount.
C2_InsufficientWithdrawalIsNoOp ==
    [][\A c \in DOMAIN clients :
          ( /\ Stepped
            /\ last'.type = "Withdrawal"
            /\ last'.client_id = c
            /\ ~clients[c].locked
            /\ ~F64Ge(clients[c].available, last'.amount) )
          => clients'[c] = clients[c]]_vars

\* C3: once a Chargeback has been applied to a ledger entry, no later
\* Dispute, Resolve or Chargeback on the same tx_id changes the balances of
\* any account.
C3_ChargebackIsTerminal ==
    [][\A t \in charged :
          (Stepped /\ IsRef(last') /\ last'.tx_id = t)
          => /\ DOMAIN clients' = DOMAIN clients
             /\ \A c \in DOMAIN clients : Bal(clients', c) = Bal(clients, c)]_vars

\* C4: once an account is locked, a Deposit or Withdrawal naming that client
\* changes none of its balances, and the Deposit writes no ledger entry.
C4_LockedBlocksDepositWithdrawal ==
    [][\A c \in DOMAIN clients :
          ( /\ Stepped
            /\ clients[c].locked
            /\ last'.type \in {"Deposit", "Withdrawal"}
            /\ last'.client_id = c )
          => /\ Bal(clients', c) = Bal(clients, c)
             /\ transactions' = transactions]_vars

\* C4 witness: a Deposit has been fed for a client that is locked.
C4_Witness ==
    /\ last.type = "Deposit"
    /\ last.client_id \in DOMAIN clients
    /\ clients[last.client_id].locked
    /\ outcome = "noop"

\* C5 (as stated): once an account is locked, no later transaction of any
\* kind changes its available, held or total.
C5_LockedIsFrozen ==
    [][\A c \in DOMAIN clients :
          clients[c].locked => Bal(clients', c) = Bal(clients, c)]_vars

\* C5 (amended): once an account is locked, its balances change only by a
\* Dispute, Resolve or Chargeback on a ledger entry owned by that client;
\* Deposit and Withdrawal never change them.
C5_LockedChangesOnlyByOwnEntry ==
    [][\A c \in DOMAIN clients :
          (clients[c].locked /\ Bal(clients', c) # Bal(clients, c))
          => /\ IsRef(last')
             /\ last'.tx_id \in DOMAIN transactions
             /\ transactions[last'.tx_id].client_id = c
             /\ transactions'[last'.tx_id].state # transactions[last'.tx_id].state]_vars

\* C5 witness: a Dispute was applied to an entry that was never charged
\* back and whose owner was already locked.
C5_Witness ==
    /\ last.type = "Dispute"
    /\ outcome = "applied"
    /\ last.tx_id \notin charged
    /\ clients[transactions[last.tx_id].client_id].locked

\* C6: the locked flag is terminal: a locked account stays in the store and
\* stays locked whatever transaction is applied.
C6_LockedIsTerminal ==
    [][\A c \in DOMAIN clients :
          clients[c].locked => (c \in DOMAIN clients' /\ clients'[c].locked)]_vars

\* C6 witness: a transaction naming a locked client has been processed
\* after the lock was set.
C6_Witness ==
    /\ last.type \in {"Deposit", "Withdrawal", "Resolve"}
    /\ last.client_id \in DOMAIN clients
    /\ clients[last.client_id].locked

\* C7: Dispute, Resolve and Chargeback change only the account of the client
\* stored in the ledger entry; every other account, the one named by the
\* record included, is neither created nor changed.
C7_RecordClientNotTrusted ==
    [][(Stepped /\ IsRef(last'))
          => \A c \in ClientIds :
                ~(last'.tx_id \in DOMAIN transactions
                    /\ transactions[last'.tx_id].client_id = c)
                => SameAccount(c)]_vars

\* C7 witness: a Dispute, Resolve or Chargeback was applied whose record
\* names another client than the owner of the entry.
C7_Witness ==
    /\ IsRef(last)
    /\ outcome = "applied"
    /\ transactions[last.tx_id].client_id # last.client_id
    /\ last.client_id \in DOMAIN clients

\* C8: a Dispute, Resolve or Chargeback on a tx_id without ledger entry
\* changes nothing: no account and no entry is created or changed.
C8_MissingTxIsNoOp ==
    [][(Stepped /\ IsRef(last') /\ last'.tx_id \notin DOMAIN transactions)
          => (clients' = clients /\ transactions' = transactions)]_vars

\* C8 witness: such a record was processed in an engine that holds accounts
\* and entries, for a client that has no account.
C8_Witness ==
    /\ IsRef(last)
    /\ last.tx_id \notin DOMAIN transactions
    /\ DOMAIN transactions # {}
    /\ last.client_id \notin DOMAIN clients

\* C9: a Dispute on an entry in state None always applies, whatever the
\* owner's available balance or locked flag: available decreases by the
\* amount, held increases by it, total and locked stay, the entry becomes
\* Disputed.
C9_DisputeAlwaysApplies ==
    [][(Stepped /\ last'.type = "Dispute"
            /\ last'.tx_id \in DOMAIN transactions
            /\ transactions[last'.tx_id].state = "None")
          => LET e == transactions[last'.tx_id]
                 c == e.client_id
             IN  /\ c \in DOMAIN clients
                 /\ clients'[c].available = Minus(clients[c].available, e.amount)
                 /\ clients'[c].held = Plus(clients[c].held, e.amount)
                 /\ clients'[c].total = clients[c].total
                 /\ clients'[c].locked = clients[c].locked
                 /\ transactions'[last'.tx_id] = [e EXCEPT !.state = "Disputed"]]_vars

\* C10: a Dispute on an entry that is already Disputed changes no account
\* and leaves the entry Disputed.
C10_DisputeIdempotent ==
    [][(Stepped /\ last'.type = "Dispute"
            /\ last'.tx_id \in DOMAIN transactions
            /\ transactions[last'.tx_id].state = "Disputed")
          => /\ clients' = clients
             /\ transactions'[last'.tx_id].state = "Disputed"
             /\ transactions' = transactions]_vars

\* C10 witness: a second Dispute hit an entry that was Disputed.
C10_Witness ==
    /\ last.type = "Dispute"
    /\ outcome = "noop"
    /\ last.tx_id \in DOMAIN transactions
    /\ transactions[last.tx_id].state = "Disputed"
    /\ F64Negative(clients[transactions[last.tx_id].client_id].available)

\* C11: Dispute followed by Resolve on the same tx_id is a round trip: the
\* owner's available, held and total are exactly what they were before the
\* Dispute, and the entry is back in state None.
C11_DisputeResolveRoundTrip ==
    [][( /\ last.type = "Dispute"
         /\ outcome = "applied"
         /\ Stepped
         /\ last'.type = "Resolve"
         /\ last'.tx_id = last.tx_id )
          => LET c == transactions[last.tx_id].client_id
             IN  /\ Bal(clients', c) = Bal(before, c)
                 /\ transactions'[last.tx_id].state = "None"]_vars

\* C12: a Chargeback on an entry in state Disputed decreases the owner's
\* total and held by the entry's amount, leaves available unchanged, sets
\* locked, and sets the entry's state to None.
C12_ChargebackEffect ==
    [][(Stepped /\ last'.type = "Chargeback"
            /\ last'.tx_id \in DOMAIN transactions
            /\ transactions[last'.tx_id].state = "Disputed")
          => LET e == transactions[last'.tx_id]
                 c == e.client_id
             IN  /\ c \in DOMAIN clients
                 /\ clients'[c].total = Minus(clients[c].total, e.amount)
                 /\ clients'[c].held = Minus(clients[c].held, e.amount)
                 /\ clients'[c].available = clients[c].available
                 /\ clients'[c].locked
                 /\ transactions'[last'.tx_id] = [e EXCEPT !.state = "None"]]_vars

\* C13: a Resolve or Chargeback on an existing entry whose state is not
\* Disputed is a no-op: the entry stays None and no account changes.
C13_ResolveChargebackNeedDisputed ==
    [][(Stepped /\ last'.type \in {"Resolve", "Chargeback"}
            /\ last'.tx_id \in DOMAIN transactions
            /\ transactions[last'.tx_id].state # "Disputed")
          => /\ clients' = clients
             /\ transactions' = transactions
             /\ transactions'[last'.tx_id].state = "None"]_vars

\* C13 witness: a Resolve or Chargeback met an existing entry in state None
\* and returned early.
C13_Witness ==
    /\ last.type \in {"Resolve", "Chargeback"}
    /\ outcome = "noop"
    /\ last.tx_id \in DOMAIN transactions
    /\ transactions[last.tx_id].state = "None"

\* C14: a Deposit on an account that is not locked increases available and
\* total by the amount, leaves held and locked unchanged and leaves the
\* ledger with the entry (client_id, amount, None) for tx_id; a client never
\* referenced starts from a zero-balance account.
C14_DepositEffect ==
    [][(Stepped /\ last'.type = "Deposit"
            /\ ~(last'.client_id \in DOMAIN clients /\ clients[last'.client_id].locked))
          => LET c == last'.client_id
                 old == IF c \in DOMAIN clients THEN clients[c] ELSE NewClient(c)
             IN  /\ c \in DOMAIN clients'
                 /\ clients'[c].available = Plus(old.available, last'.amount)
                 /\ clients'[c].total = Plus(old.total, last'.amount)
                 /\ clients'[c].held = old.held
                 /\ clients'[c].locked = old.locked
                 /\ last'.tx_id \in DOMAIN transactions'
                 /\ transactions'[last'.tx_id] =
                        PersistedDeposit(c, last'.tx_id, last'.amount, "None")]_vars

\* C15: a Withdrawal on an unlocked account whose available balance is at
\* least the amount decreases available and total by the amount, leaves held
\* and locked unchanged and changes no ledger entry.
C15_WithdrawalEffect ==
    [][\A c \in DOMAIN clients :
          ( /\ Stepped
            /\ last'.type = "Withdrawal"
            /\ last'.client_id = c
            /\ ~clients[c].locked
            /\ F64Ge(clients[c].available, last'.amount) )
          => /\ clients'[c].available = Minus(clients[c].available, last'.amount)
             /\ clients'[c].total = Minus(clients[c].total, last'.amount)
             /\ clients'[c].held = clients[c].held
             /\ clients'[c].locked = clients[c].locked
             /\ transactions' = transactions]_vars

\* C16: an existing entry's dispute state changes from None to Disputed only
\* by a Dispute on its tx_id and from Disputed to None only by a Resolve or
\* Chargeback on its tx_id; no other transaction, a Deposit reusing the
\* tx_id included, changes its dispute state, client or amount.
C16_EntryStateMachine ==
    [][\A t \in DOMAIN transactions :
          /\ t \in DOMAIN transactions'
          /\ transactions'[t] # transactions[t]
             => /\ last'.tx_id = t
                /\ transactions'[t].client_id = transactions[t].client_id
                /\ transactions'[t].amount = transactions[t].amount
                /\ \/ /\ transactions[t].state = "None"
                      /\ transactions'[t].state = "Disputed"
                      /\ last'.type = "Dispute"
                   \/ /\ transactions[t].state = "Disputed"
                      /\ transactions'[t].state = "None"
                      /\ last'.type \in {"Resolve", "Chargeback"}]_vars

\* C17: ledger entries are created only by Deposit and never deleted: the
\* set of tx ids never shrinks, it grows only by the tx_id of a Deposit, a
\* Withdrawal leaves the ledger as it is, and a Dispute on a tx_id that is
\* not in the ledger is a no-op.
C17_LedgerGrowsOnlyByDeposit ==
    [][/\ DOMAIN transactions \subseteq DOMAIN transactions'
       /\ DOMAIN transactions' # DOMAIN transactions
            => /\ last'.type = "Deposit"
               /\ DOMAIN transactions' = DOMAIN transactions \cup {last'.tx_id}
       /\ (Stepped /\ last'.type = "Withdrawal") => transactions' = transactions
       /\ (Stepped /\ last'.type = "Dispute" /\ last'.tx_id \notin DOMAIN transactions)
            => (clients' = clients /\ transactions' = transactions)]_vars

\* C17 witness: a Withdrawal was applied whose tx_id is not in the ledger
\* although the ledger holds entries.
C17_Witness ==
    /\ last.type = "Withdrawal"
    /\ outcome = "applied"
    /\ last.tx_id \notin DOMAIN transactions
    /\ DOMAIN transactions # {}

\* C18: the accounts in the snapshot are exactly the clients named by the
\* Deposit and Withdrawal records applied so far (also when the operation was
\* a no-op); Dispute, Resolve and Chargeback never create an account.
C18_AccountsAreNamedClients ==
    {a.client : a \in get_client_list} = named

\* C18 witness: a Withdrawal naming a client that owns no entry was a no-op
\* and the client has a zero-balance unlocked account.
C18_Witness ==
    /\ last.type = "Withdrawal"
    /\ outcome = "noop"
    /\ clients[last.client_id] = NewClient(last.client_id)
    /\ \A t \in DOMAIN transactions : transactions[t].client_id # last.client_id
    /\ DOMAIN transactions # {}

\* C19: an account becomes locked only through a Chargeback applied to an
\* entry in state Disputed that is owned by that client; Deposit, Withdrawal,
\* Dispute and Resolve never set locked.
C19_LockedOnlyByChargeback ==
    [][\A c \in DOMAIN clients' :
          (clients'[c].locked /\ ~(c \in DOMAIN clients /\ clients[c].locked))
          => /\ last'.type = "Chargeback"
             /\ last'.tx_id \in DOMAIN transactions
             /\ transactions[last'.tx_id].state = "Disputed"
             /\ transactions[last'.tx_id].client_id = c]_vars

\* C19 witness: a Chargeback whose record names another, existing client was
\* applied; the owner is locked and the named client is not.
C19_Witness ==
    /\ last.type = "Chargeback"
    /\ outcome = "applied"
    /\ transactions[last.tx_id].client_id # last.client_id
    /\ last.client_id \in DOMAIN clients
    /\ ~clients[last.client_id].locked
    /\ clients[transactions[last.tx_id].client_id].locked

\* the sum of the amounts of the Disputed entries owned by client c
DisputedOf(c) ==
    {t \in DOMAIN transactions :
        transactions[t].client_id = c /\ transactions[t].state = "Disputed"}

RECURSIVE SumAmounts(_)
SumAmounts(ts) ==
    IF ts = {} THEN F64Zero
    ELSE LET t == CHOOSE x \in ts : \A y \in ts : x <= y
         IN  F64Add(transactions[t].amount, SumAmounts(ts \ {t}))

\* C20: in every reachable state each account's held equals the sum of the
\* amounts of the Disputed entries owned by that client; an account without
\* Disputed entry has held == 0.
C20_HeldIsSumOfDisputed ==
    \A c \in DOMAIN clients : clients[c].held = SumAmounts(DisputedOf(c))

\* C21: with non-negative amounts every account's held is non-negative in
\* every reachable state, repeated disputes and reused tx ids included.
C21_HeldNonNegative ==
    \A c \in DOMAIN clients : ~F64Negative(clients[c].held)

\* the accounts and ledger entries that a step creates or changes
ChangedAccounts ==
    {c \in ClientIds : ~SameAccount(c)}

ChangedEntries ==
    {t \in TxIds :
        \/ (t \in DOMAIN transactions') # (t \in DOMAIN transactions)
        \/ t \in DOMAIN transactions /\ transactions'[t] # transactions[t]}

\* C22: each transaction changes at most one account and at most one ledger
\* entry: a Deposit or Withdrawal only the account of the named client (and a
\* Deposit only the entry of its tx_id), a Dispute, Resolve or Chargeback only
\* the account of the entry's owner and the entry of the referenced tx_id.
C22_OneAccountOneEntry ==
    [][Stepped =>
          /\ Cardinality(ChangedAccounts) <= 1
          /\ Cardinality(ChangedEntries) <= 1
          /\ ChangedEntries \subseteq {last'.tx_id}
          /\ last'.type \in {"Deposit", "Withdrawal"}
                => ChangedAccounts \subseteq {last'.client_id}
          /\ IsRef(last')
                => ChangedAccounts \subseteq
                      {transactions[t].client_id :
                          t \in {last'.tx_id} \cap DOMAIN transactions}]_vars

\* C22 witness: a Resolve was applied in an engine that holds two accounts
\* and two entries, on an entry the record's client does not own.
C22_Witness ==
    /\ last.type = "Resolve"
    /\ outcome = "applied"
    /\ Cardinality(DOMAIN clients) = 2
    /\ Cardinality(DOMAIN transactions) = 2
    /\ transactions[last.tx_id].client_id # last.client_id
====
